---- MODULE Spec2Model ----
(***************************************************************************)
(* Model of rng-nibbler (src/src/lib.rs): RngBitstream::gen_bits, the bit  *)
(* reservoir over a 64-bit word generator, and BitstreamExt::gen_range,    *)
(* the range sampler built on it.                                          *)
(*                                                                         *)
(* Integers keep their width.  The u64 of the source is a word of          *)
(* WordBits bits and the u32 of the source a counter of CountBits bits;    *)
(* every constant 64 of the source is WordBits.  Rust arithmetic overflow  *)
(* is build dependent: with overflow checks (the test profile) it panics,  *)
(* without them (the bench profile) it wraps and a shift amount is taken   *)
(* modulo the width.  The variable overflow_checks holds the build.        *)
(***************************************************************************)
EXTENDS Integers, Sequences, FiniteSets, TLC

\* width of the u64 of the source, scaled
WordBits == 3
\* width of the u32 of the source (num_bits, unused_bits), scaled
CountBits == 5
\* number of words the generator hands out in one behaviour
MaxDraws == 2

U64Mod == 2 ^ WordBits
U32Mod == 2 ^ CountBits
Words == 0 .. (U64Mod - 1)
\* the bit counts a caller passes to gen_bits: the contract's [0, 64] and
\* two counts beyond it
NumBitsArgs == 0 .. (WordBits + 2)
\* the bit counts of the contract
ValidNumBits == 0 .. WordBits
\* the sizes a caller passes to gen_range: every u64, 0 included
SizeArgs == Words

VARIABLES
    bit_buffer,       \* RngBitstream.bit_buffer
    unused_bits,      \* RngBitstream.unused_bits
    overflow_checks,  \* TRUE: arithmetic overflow panics; FALSE: it wraps
    draws,            \* the number of words rng.gen() has returned so far
    pending,          \* the generator's bits, in the order drawn (each word
                      \* least significant bit first), that no gen_bits
                      \* call has returned yet
    faithful,         \* every gen_bits call so far has returned the first
                      \* num_bits bits that were pending, in order
    requested,        \* sum of num_bits over the gen_bits calls so far, up to
                      \* the first call with num_bits > 64
    misuse,           \* some gen_bits call so far had num_bits > 64
    call,             \* the most recent call: its argument, progress, result
    count,            \* CountingRngBitstream.count
    plain             \* an undecorated RngBitstream driven beside the
                      \* CountingRngBitstream by the same calls and the same
                      \* generator words, with the outcome of its last call

vars == <<bit_buffer, unused_bits, overflow_checks, draws, pending, faithful,
          requested, misuse, call, count, plain>>

----------------------------------------------------------------------------
(* Machine arithmetic *)

Ok(x) == [ok |-> TRUE, v |-> x]
Panic == [ok |-> FALSE, v |-> 0]

Bit(x, i) == (x \div (2 ^ i)) % 2

\* a | b on words
BitOr(a, b) ==
    LET RECURSIVE Or(_)
        Or(i) == IF i = WordBits THEN 0
                 ELSE (IF Bit(a, i) = 1 \/ Bit(b, i) = 1 THEN 2 ^ i ELSE 0)
                      + Or(i + 1)
    IN Or(0)

\* a - b on unsigned integers modulo m
Sub(a, b, m, chk) ==
    IF a >= b THEN Ok(a - b)
    ELSE IF chk THEN Panic
    ELSE Ok((a - b + m) % m)

\* a + b on u64
Add(a, b, chk) ==
    IF a + b < U64Mod THEN Ok(a + b)
    ELSE IF chk THEN Panic
    ELSE Ok((a + b) % U64Mod)

\* a * b on u64
Mul(a, b, chk) ==
    IF a * b < U64Mod THEN Ok(a * b)
    ELSE IF chk THEN Panic
    ELSE Ok((a * b) % U64Mod)

\* a << n on u64: bits shifted out are lost in every build; a shift amount
\* of the width or more panics, or is taken modulo the width
Shl(a, n, chk) ==
    IF n < WordBits THEN Ok((a * (2 ^ n)) % U64Mod)
    ELSE IF chk THEN Panic
    ELSE Ok((a * (2 ^ (n % WordBits))) % U64Mod)

\* a >> n on u64
Shr(a, n, chk) ==
    IF n < WordBits THEN Ok(a \div (2 ^ n))
    ELSE IF chk THEN Panic
    ELSE Ok(a \div (2 ^ (n % WordBits)))

\* u64::leading_zeros
leading_zeros(x) ==
    LET RECURSIVE Len_(_)
        Len_(y) == IF y = 0 THEN 0 ELSE 1 + Len_(y \div 2)
    IN WordBits - Len_(x)

----------------------------------------------------------------------------
(* RngBitstream::gen_bits *)

\* if num_bits < 64 { result &= (1 << num_bits) - 1; }
Mask_NoMask(result, num_bits) == result
Mask_Unguarded(result, num_bits) == result % (2 ^ (num_bits % WordBits))
Mask(result, num_bits) ==
    IF num_bits < WordBits THEN result % (2 ^ num_bits) ELSE result

\* the bits taken from the buffered word: lines 30-36
LeftoverPart_LowBits(buf, unused, num_bits, chk) ==
    IF unused > 0
    THEN Ok(Mask(buf, num_bits))
    ELSE Ok(0)
LeftoverPart(buf, unused, num_bits, chk) ==
    IF unused > 0
    THEN LET amount == Sub(WordBits, unused, U32Mod, chk)
             shifted == IF amount.ok THEN Shr(buf, amount.v, chk) ELSE Panic
         IN IF shifted.ok THEN Ok(Mask(BitOr(0, shifted.v), num_bits))
            ELSE Panic
    ELSE Ok(0)

\* if num_bits <= self.unused_bits: line 37
FromBuffer_Strict(num_bits, unused) == num_bits < unused
FromBuffer(num_bits, unused) == num_bits <= unused

\* self.unused_bits = 64 - extra_bits: line 46
NewUnused_FromNumBits(num_bits, unused, chk) ==
    Sub(WordBits, num_bits, U32Mod, chk)
NewUnused(num_bits, unused, chk) ==
    LET extra_bits == num_bits - unused
    IN Sub(WordBits, extra_bits, U32Mod, chk)

\* One gen_bits call on the buffer (buf, unused); word is what rng.gen()
\* returns if the call draws.  A panic keeps the assignments made before it.
gen_bits(buf, unused, num_bits, word, chk) ==
    LET part == LeftoverPart(buf, unused, num_bits, chk)
    IN IF ~part.ok
       THEN [status |-> "panicked", result |-> 0, bit_buffer |-> buf,
             unused_bits |-> unused, drew |-> 0]
       ELSE IF FromBuffer(num_bits, unused)
       THEN [status |-> "returned", result |-> part.v, bit_buffer |-> buf,
             unused_bits |-> unused - num_bits, drew |-> 0]
       ELSE LET fresh == Shl(word, unused, chk)
                left == NewUnused(num_bits, unused, chk)
            IN IF ~fresh.ok \/ ~left.ok
               THEN [status |-> "panicked", result |-> 0, bit_buffer |-> word,
                     unused_bits |-> unused, drew |-> 1]
               ELSE [status |-> "returned",
                     result |-> Mask(BitOr(part.v, fresh.v), num_bits),
                     bit_buffer |-> word, unused_bits |-> left.v, drew |-> 1]

\* the low n bits of x, least significant first
BitsOf(x, n) == [i \in 1 .. n |-> Bit(x, i - 1)]

\* The history after one gen_bits call g, kept up to the first call with
\* num_bits > 64: the bits of a drawn word join the pending bits pend, and
\* the bits the call returns are compared with the first pending bits and
\* leave them.
Serve(pend, good, bad, g, num_bits, word) ==
    LET drawn == IF g.drew = 1 THEN pend \o BitsOf(word, WordBits) ELSE pend
        served == ~bad /\ num_bits <= WordBits /\ g.status = "returned"
        enough == num_bits <= Len(drawn)
    IN [pending |-> IF bad \/ num_bits > WordBits THEN <<>>
                    ELSE IF served /\ enough
                    THEN SubSeq(drawn, num_bits + 1, Len(drawn))
                    ELSE drawn,
        faithful |-> IF served
                     THEN /\ good
                          /\ enough
                          /\ BitsOf(g.result, num_bits)
                               = SubSeq(drawn, 1, num_bits)
                     ELSE good]

\* The effect of one gen_bits call g = gen_bits(bit_buffer, unused_bits,
\* num_bits, word, overflow_checks) on the buffer and on the history.
Buffer(g, num_bits, word) ==
    /\ g.drew = 1 => draws < MaxDraws
    /\ bit_buffer' = g.bit_buffer
    /\ unused_bits' = g.unused_bits
    /\ draws' = draws + g.drew
    /\ \E h \in {Serve(pending, faithful, misuse, g, num_bits, word)} :
         /\ pending' = h.pending
         /\ faithful' = h.faithful
    /\ requested' = IF ~misuse /\ num_bits <= WordBits
                    THEN requested + num_bits
                    ELSE requested
    /\ misuse' = (misuse \/ num_bits > WordBits)

\* rng.gen() is called only on the path that refills the buffer, and the
\* generator hands out MaxDraws words
WordChoices(num_bits) ==
    IF FromBuffer(num_bits, unused_bits) THEN {0}
    ELSE IF draws < MaxDraws THEN Words
    ELSE {}

\* A new call starts when the previous one has returned.  A buffer whose
\* unused_bits has wrapped to 64 or more (a call with num_bits > 64 in a
\* build without overflow checks) is followed no further.
Idle == call.status = "returned" /\ unused_bits < WordBits

NoCall == [op |-> "new", arg |-> 0, status |-> "returned", result |-> 0,
           round |-> 0, leftover |-> 0, leftover_size |-> 0,
           reqs |-> <<>>, drew |-> 0]

\* the undecorated RngBitstream: its fields and the outcome of its last call
Beside(buf, unused, c) == [bit_buffer |-> buf, unused_bits |-> unused,
                           call |-> c]

\* a caller calls gen_bits(num_bits)
GenBitsCall(num_bits) ==
    /\ Idle
    /\ \E word \in WordChoices(num_bits) :
         \E g \in {gen_bits(bit_buffer, unused_bits, num_bits, word,
                           overflow_checks)} :
            /\ Buffer(g, num_bits, word)
            /\ call' = [NoCall EXCEPT !.op = "gen_bits", !.arg = num_bits,
                                      !.status = g.status,
                                      !.result = g.result,
                                      !.reqs = <<num_bits>>,
                                      !.drew = g.drew]
    /\ UNCHANGED <<overflow_checks, count, plain>>

----------------------------------------------------------------------------
(* BitstreamExt::gen_range *)

\* let bits_needed = 64 - (size - 1).leading_zeros(): lines 65-66
BitsNeeded_OfSize(size, chk) == Ok(WordBits - leading_zeros(size))
BitsNeeded(size, chk) ==
    LET top == Sub(size, 1, U64Mod, chk)
    IN IF top.ok THEN Ok(WordBits - leading_zeros(top.v)) ELSE Panic

\* if leftover < size { return leftover; }: lines 68 and 83
InRange_Inclusive(leftover, size) == leftover <= size
InRange(leftover, size) == leftover < size

\* let mut leftover_size: u64 = (1 << bits_needed) - size: line 72
InitialLeftoverSize(bits_needed, size, chk) ==
    LET one == Shl(1, bits_needed, chk)
    IN IF one.ok THEN Sub(one.v, size, U64Mod, chk) ELSE Panic

\* The inner search, lines 78-81: the least bits_needed >= 1 with
\* (leftover_size << bits_needed) >= size.  With overflow checks the shift
\* by 64 panics.  Without them the shift amount is bits_needed mod 64, so a
\* search that finds nothing in 1..64 never ends.
ExtraBits(leftover_size, size, chk) ==
    LET RECURSIVE Search(_)
        Search(bits_needed) ==
            IF bits_needed > WordBits THEN [status |-> "hung", v |-> 0]
            ELSE LET grown == Shl(leftover_size, bits_needed, chk)
                 IN IF ~grown.ok THEN [status |-> "panicked", v |-> 0]
                    ELSE IF grown.v < size THEN Search(bits_needed + 1)
                    ELSE [status |-> "ok", v |-> bits_needed]
    IN Search(1)

\* leftover += self.gen_bits(bits_needed) * leftover_size: line 82
Accumulate(leftover, drawn, leftover_size, chk) ==
    LET digit == Mul(drawn, leftover_size, chk)
    IN IF digit.ok THEN Add(leftover, digit.v, chk) ELSE Panic

\* leftover_size <<= bits_needed; leftover_size -= size: lines 86 and 88
Shrink_NoSub(leftover_size, bits_needed, size, chk) ==
    Shl(leftover_size, bits_needed, chk)
Shrink(leftover_size, bits_needed, size, chk) ==
    LET grown == Shl(leftover_size, bits_needed, chk)
    IN IF grown.ok THEN Sub(grown.v, size, U64Mod, chk) ELSE Panic

\* lines 67-72, after the first gen_bits call g
FirstDraw(size, bits_needed, g, chk) ==
    LET c == [NoCall EXCEPT !.op = "gen_range", !.arg = size,
                            !.reqs = <<bits_needed>>, !.drew = g.drew]
    IN IF g.status = "panicked" THEN [c EXCEPT !.status = "panicked"]
       ELSE IF InRange(g.result, size) THEN [c EXCEPT !.result = g.result]
       ELSE LET leftover_size == InitialLeftoverSize(bits_needed, size, chk)
            IN IF ~leftover_size.ok
               THEN [c EXCEPT !.status = "panicked",
                              !.leftover = g.result - size]
               ELSE [c EXCEPT !.status = "running", !.round = 1,
                              !.leftover = g.result - size,
                              !.leftover_size = leftover_size.v]

\* lines 82-88 of one iteration of the loop, after its gen_bits call g
Refine_Mixed(c, bits_needed, g, chk) ==
    LET d == [c EXCEPT !.reqs = Append(c.reqs, bits_needed),
                       !.drew = c.drew + g.drew]
        leftover == Accumulate(c.leftover, g.result, c.leftover_size, chk)
        leftover_size == Shrink(c.leftover_size, bits_needed, c.arg, chk)
    IN IF g.status = "panicked" \/ ~leftover.ok
       THEN [d EXCEPT !.status = "panicked"]
       ELSE IF InRange(leftover.v, c.arg)
       THEN [d EXCEPT !.status = "returned", !.result = leftover.v,
                      !.leftover = leftover.v]
       ELSE IF ~leftover_size.ok
       THEN [d EXCEPT !.status = "panicked", !.leftover = leftover.v]
       ELSE [d EXCEPT !.round = c.round + 1,
                      !.leftover = leftover.v - c.arg,
                      !.leftover_size = leftover.v]
Refine(c, bits_needed, g, chk) ==
    LET d == [c EXCEPT !.reqs = Append(c.reqs, bits_needed),
                       !.drew = c.drew + g.drew]
        leftover == Accumulate(c.leftover, g.result, c.leftover_size, chk)
        leftover_size == Shrink(c.leftover_size, bits_needed, c.arg, chk)
    IN IF g.status = "panicked" \/ ~leftover.ok
       THEN [d EXCEPT !.status = "panicked"]
       ELSE IF InRange(leftover.v, c.arg)
       THEN [d EXCEPT !.status = "returned", !.result = leftover.v,
                      !.leftover = leftover.v]
       ELSE IF ~leftover_size.ok
       THEN [d EXCEPT !.status = "panicked", !.leftover = leftover.v]
       ELSE [d EXCEPT !.round = c.round + 1,
                      !.leftover = leftover.v - c.arg,
                      !.leftover_size = leftover_size.v]

\* a caller calls gen_range(size): lines 65-72
GenRangeCall(size) ==
    /\ Idle
    /\ \E bits_needed \in {BitsNeeded(size, overflow_checks)} :
          IF ~bits_needed.ok
          THEN /\ call' = [NoCall EXCEPT !.op = "gen_range", !.arg = size,
                                         !.status = "panicked"]
               /\ UNCHANGED <<bit_buffer, unused_bits, draws, pending,
                              faithful, requested, misuse>>
          ELSE \E word \in WordChoices(bits_needed.v) :
                 \E g \in {gen_bits(bit_buffer, unused_bits, bits_needed.v,
                                   word, overflow_checks)} :
                    /\ Buffer(g, bits_needed.v, word)
                    /\ call' = FirstDraw(size, bits_needed.v, g,
                                         overflow_checks)
    /\ UNCHANGED <<overflow_checks, count, plain>>

\* one iteration of the loop of a gen_range call in progress: lines 73-89
GenRangeRound ==
    /\ call.status = "running"
    /\ \E bits_needed \in {ExtraBits(call.leftover_size, call.arg,
                                       overflow_checks)} :
          IF bits_needed.status # "ok"
          THEN /\ call' = [call EXCEPT !.status = bits_needed.status]
               /\ UNCHANGED <<bit_buffer, unused_bits, draws, pending,
                              faithful, requested, misuse>>
          ELSE \E word \in WordChoices(bits_needed.v) :
                 \E g \in {gen_bits(bit_buffer, unused_bits, bits_needed.v,
                                   word, overflow_checks)} :
                    /\ Buffer(g, bits_needed.v, word)
                    /\ call' = Refine(call, bits_needed.v, g,
                                      overflow_checks)
    /\ UNCHANGED <<overflow_checks, count, plain>>

----------------------------------------------------------------------------
\* RngBitstream::new, in either build
Init ==
    /\ bit_buffer = 0
    /\ unused_bits = 0
    /\ overflow_checks \in BOOLEAN
    /\ draws = 0
    /\ pending = <<>>
    /\ faithful = TRUE
    /\ requested = 0
    /\ misuse = FALSE
    /\ call = NoCall
    /\ count = 0
    /\ plain = Beside(0, 0, NoCall)

Next ==
    \/ \E num_bits \in NumBitsArgs : GenBitsCall(num_bits)
    \/ \E size \in SizeArgs : GenRangeCall(size)
    \/ GenRangeRound

Spec == Init /\ [][Next]_vars

----------------------------------------------------------------------------
(* CountingRngBitstream: the same calls made on a CountingRngBitstream,    *)
(* with an undecorated RngBitstream run beside it on the same words.       *)

\* CountingRngBitstream::gen_bits, lines 53-56: self.count += num_bits as
\* u64, then self.bitstream.gen_bits(num_bits)
counting_gen_bits_Calls(cnt, buf, unused, num_bits, word, chk) ==
    [count |-> (cnt + 1) % U64Mod,
     g |-> gen_bits(buf, unused, num_bits, word, chk)]
counting_gen_bits(cnt, buf, unused, num_bits, word, chk) ==
    LET sum == Add(cnt, num_bits, chk)
    IN IF ~sum.ok
       THEN [count |-> cnt,
             g |-> [status |-> "panicked", result |-> 0, bit_buffer |-> buf,
                    unused_bits |-> unused, drew |-> 0]]
       ELSE [count |-> sum.v,
             g |-> gen_bits(buf, unused, num_bits, word, chk)]

\* a caller calls gen_bits(num_bits) on both bitstreams
CountingGenBitsCall(num_bits) ==
    /\ Idle
    /\ \E word \in WordChoices(num_bits) :
         \E c \in {counting_gen_bits(count, bit_buffer, unused_bits,
                                     num_bits, word, overflow_checks)} :
         \E p \in {gen_bits(plain.bit_buffer, plain.unused_bits, num_bits,
                            word, overflow_checks)} :
            /\ Buffer(c.g, num_bits, word)
            /\ count' = c.count
            /\ call' = [NoCall EXCEPT !.op = "gen_bits", !.arg = num_bits,
                                      !.status = c.g.status,
                                      !.result = c.g.result,
                                      !.reqs = <<num_bits>>,
                                      !.drew = c.g.drew]
            /\ plain' = Beside(p.bit_buffer, p.unused_bits,
                               [NoCall EXCEPT !.op = "gen_bits",
                                              !.arg = num_bits,
                                              !.status = p.status,
                                              !.result = p.result,
                                              !.reqs = <<num_bits>>,
                                              !.drew = p.drew])
    /\ UNCHANGED overflow_checks

\* a caller calls gen_range(size) on both bitstreams: gen_range is written
\* once for every Bitstream and reaches the buffer through gen_bits
CountingGenRangeCall(size) ==
    /\ Idle
    /\ \E bits_needed \in {BitsNeeded(size, overflow_checks)} :
          IF ~bits_needed.ok
          THEN /\ call' = [NoCall EXCEPT !.op = "gen_range", !.arg = size,
                                         !.status = "panicked"]
               /\ plain' = [plain EXCEPT !.call = call']
               /\ UNCHANGED <<bit_buffer, unused_bits, draws, pending,
                              faithful, requested, misuse, count>>
          ELSE \E word \in WordChoices(bits_needed.v) :
                 \E c \in {counting_gen_bits(count, bit_buffer, unused_bits,
                                             bits_needed.v, word,
                                             overflow_checks)} :
                 \E p \in {gen_bits(plain.bit_buffer, plain.unused_bits,
                                    bits_needed.v, word, overflow_checks)} :
                    /\ Buffer(c.g, bits_needed.v, word)
                    /\ count' = c.count
                    /\ call' = FirstDraw(size, bits_needed.v, c.g,
                                         overflow_checks)
                    /\ plain' = Beside(p.bit_buffer, p.unused_bits,
                                       FirstDraw(size, bits_needed.v, p,
                                                 overflow_checks))
    /\ UNCHANGED overflow_checks

\* one iteration of the loop of the gen_range call in progress on both
\* bitstreams; each runs its own search from its own leftover_size
CountingGenRangeRound ==
    /\ call.status = "running"
    /\ plain.call.status = "running"
    /\ \E bits_needed \in {ExtraBits(call.leftover_size, call.arg,
                                       overflow_checks)} :
       \E plain_bits \in {ExtraBits(plain.call.leftover_size,
                                     plain.call.arg, overflow_checks)} :
          IF bits_needed.status # "ok" \/ plain_bits.status # "ok"
          THEN /\ call' = [call EXCEPT !.status =
                              IF bits_needed.status # "ok"
                              THEN bits_needed.status ELSE "running"]
               /\ plain' = [plain EXCEPT !.call.status =
                              IF plain_bits.status # "ok"
                              THEN plain_bits.status ELSE "running"]
               /\ UNCHANGED <<bit_buffer, unused_bits, draws, pending,
                              faithful, requested, misuse, count>>
          ELSE \E word \in WordChoices(bits_needed.v) :
                 \E c \in {counting_gen_bits(count, bit_buffer, unused_bits,
                                             bits_needed.v, word,
                                             overflow_checks)} :
                 \E p \in {gen_bits(plain.bit_buffer, plain.unused_bits,
                                    plain_bits.v, word, overflow_checks)} :
                    /\ Buffer(c.g, bits_needed.v, word)
                    /\ count' = c.count
                    /\ call' = Refine(call, bits_needed.v, c.g,
                                      overflow_checks)
                    /\ plain' = Beside(p.bit_buffer, p.unused_bits,
                                       Refine(plain.call, plain_bits.v, p,
                                              overflow_checks))
    /\ UNCHANGED overflow_checks

NextCounting ==
    \/ \E num_bits \in ValidNumBits : CountingGenBitsCall(num_bits)
    \/ \E size \in SizeArgs : CountingGenRangeCall(size)
    \/ CountingGenRangeRound

SpecCounting == Init /\ [][NextCounting]_vars

----------------------------------------------------------------------------
(* The bit strings behind a gen_range call.  gen_bits(n) hands gen_range   *)
(* n fresh generator bits (C2, C3), so one call is decided by the values   *)
(* d its gen_bits calls return; each of them is equally likely.            *)

Drawn(d) == [status |-> "returned", result |-> d, bit_buffer |-> 0,
             unused_bits |-> 0, drew |-> 0]

\* the pairs <<draws, call>>: the values drawn up to and in round n, and
\* the call after round n
RECURSIVE Paths(_, _, _)
Paths(size, n, chk) ==
    IF n = 0
    THEN LET bits_needed == BitsNeeded(size, chk)
         IN IF ~bits_needed.ok THEN {}
            ELSE { <<<<d>>, FirstDraw(size, bits_needed.v, Drawn(d), chk)>> :
                     d \in 0 .. (2 ^ bits_needed.v - 1) }
    ELSE UNION {
           LET bits_needed == ExtraBits(p[2].leftover_size, size, chk)
           IN IF bits_needed.status # "ok" THEN {}
              ELSE { <<Append(p[1], d),
                       Refine(p[2], bits_needed.v, Drawn(d), chk)>> :
                       d \in 0 .. (2 ^ bits_needed.v - 1) } :
           p \in { q \in Paths(size, n - 1, chk) : q[2].status = "running" } }

\* the number of bit strings on which gen_range(size) returns v in round n
Strings(size, n, v, chk) ==
    Cardinality({ p \in Paths(size, n, chk) :
                    p[2].status = "returned" /\ p[2].result = v })

\* The num_bits of the gen_bits calls of n further iterations of the loop,
\* entered with leftover_size: lines 78-81, 86 and 88 use size and
\* leftover_size only.
RECURSIVE Requests(_, _, _, _)
Requests(size, leftover_size, n, chk) ==
    IF n = 0 THEN <<>>
    ELSE \* the search of this iteration, then the shrunk leftover_size
         LET bits_needed == ExtraBits(leftover_size, size, chk).v
         IN <<bits_needed>>
              \o Requests(size,
                          Shrink(leftover_size, bits_needed, size, chk).v,
                          n - 1, chk)

\* the num_bits of the first gen_bits call of gen_range(size) and of its
\* first n iterations: lines 65-67 and 72
Schedule(size, n, chk) ==
    LET bits_needed == BitsNeeded(size, chk).v
    IN <<bits_needed>>
         \o Requests(size, InitialLeftoverSize(bits_needed, size, chk).v,
                     n, chk)

----------------------------------------------------------------------------
(* Claims *)

\* the unconsumed bits of the buffered word, as a number
Reservoir == bit_buffer \div (2 ^ (WordBits - unused_bits))

\* C1: a value gen_range(size) returns, size > 0, lies in [0, size), from
\* every buffer state and for every generator output.
C1_RangeBound ==
    (call.op = "gen_range" /\ call.status = "returned" /\ call.arg > 0)
        => (call.result >= 0 /\ call.result < call.arg)

\* gen_range returned from inside its loop, on a buffer with leftover bits
C1_Witness ==
    /\ call.op = "gen_range" /\ call.status = "returned"
    /\ call.round >= 1 /\ call.arg > 0 /\ call.result = call.arg - 1

\* C2: gen_bits(num_bits), num_bits in [0, 64], returns a value with no bit
\* at or above position num_bits.
C2_BitContainment ==
    (call.op = "gen_bits" /\ call.status = "returned"
       /\ call.arg <= WordBits)
        => (call.result >= 0 /\ call.result < 2 ^ call.arg)

\* a request of fewer than 64 bits served partly from the buffered word and
\* partly from a fresh one that has bits above the request
C2_Witness ==
    /\ call.op = "gen_bits" /\ call.status = "returned"
    /\ call.arg \in 1 .. (WordBits - 1) /\ call.drew = 1
    /\ unused_bits + call.arg > WordBits
    /\ Reservoir > 0

\* C3: the bits returned by gen_bits calls with num_bits in [0, 64], each
\* value read least significant bit first, are a prefix of the generator's
\* word stream read least significant bit first: every call returns the
\* next num_bits bits of the stream (none reused, none skipped), so the bits
\* returned and the bits still pending are the bits drawn.
C3_StreamPrefix ==
    ~misuse =>
        /\ faithful
        /\ requested + Len(pending) = WordBits * draws

\* two words handed out to the last bit, the last request served from the
\* buffer with a bit set
C3_Witness ==
    /\ ~misuse /\ draws = 2 /\ requested = 2 * WordBits /\ pending = <<>>
    /\ call.op = "gen_bits" /\ call.status = "returned"
    /\ call.arg \in 1 .. (WordBits - 1) /\ call.drew = 0 /\ call.result > 0

\* C4: for size > 0 and every round n, every value of [0, size) is returned
\* in round n by the same number of bit strings.
C4_Uniform ==
    (call.op = "gen_range" /\ call.status = "returned" /\ call.arg > 0)
        => \A v, w \in 0 .. (call.arg - 1) :
             Strings(call.arg, call.round, v, overflow_checks)
               = Strings(call.arg, call.round, w, overflow_checks)

\* C5: gen_range(size) with size >= 2^63 neither panics nor overflows and
\* returns a value below size.
C5_LargeSizes ==
    (call.op = "gen_range" /\ call.arg >= 2 ^ (WordBits - 1))
        => /\ call.status \in {"running", "returned"}
           /\ call.status = "returned" => call.result < call.arg

\* C6: gen_bits(0) returns 0, draws nothing and leaves bit_buffer and
\* unused_bits as they were.
C6_ZeroBitsNoOp ==
    [][GenBitsCall(0) =>
         /\ call'.status = "returned" /\ call'.result = 0
         /\ call'.drew = 0
         /\ UNCHANGED <<bit_buffer, unused_bits, draws, pending>>]_vars

\* gen_bits(0) on a buffer whose leftover bits are not all zero
C6_Witness ==
    /\ call.op = "gen_bits" /\ call.arg = 0 /\ call.status = "returned"
    /\ unused_bits > 0 /\ Reservoir > 0

\* C7: gen_range(1) returns 0, requests zero bits in one gen_bits(0),
\* draws nothing and leaves bit_buffer and unused_bits as they were.
C7_RangeOne ==
    [][GenRangeCall(1) =>
         /\ call'.status = "returned" /\ call'.result = 0
         /\ call'.reqs = <<0>> /\ call'.drew = 0
         /\ UNCHANGED <<bit_buffer, unused_bits, draws, pending,
                        requested>>]_vars

\* gen_range(1) on a buffer whose leftover bits are not all zero
C7_Witness ==
    /\ call.op = "gen_range" /\ call.arg = 1 /\ call.status = "returned"
    /\ unused_bits > 0 /\ Reservoir > 0

\* C8: a gen_bits call with num_bits > 64 fails in every buffer state and
\* returns no value.
C8_InvalidBitsFail ==
    (call.op = "gen_bits" /\ call.arg > WordBits)
        => call.status = "panicked"

\* C9: gen_range(0) fails at size - 1, before any gen_bits call, in every
\* state.
C9_ZeroSizeFails ==
    (call.op = "gen_range" /\ call.arg = 0)
        => (call.status = "panicked" /\ call.reqs = <<>> /\ call.drew = 0)

\* C10: after gen_bits calls with num_bits in [0, 64] on a fresh buffer,
\* unused_bits is in [0, 64) and is 64 * draws - bits requested, so that
\* draws = ceil(bits requested / 64).
C10_BitAccounting ==
    ~misuse =>
        /\ unused_bits \in 0 .. (WordBits - 1)
        /\ unused_bits = WordBits * draws - requested
        /\ draws = (requested + WordBits - 1) \div WordBits

\* a full-width request served across two words
C10_Witness ==
    /\ ~misuse /\ draws = 2 /\ unused_bits > 0
    /\ call.op = "gen_bits" /\ call.arg = WordBits /\ call.drew = 1

\* C11: whenever unused_bits = 0, gen_bits(64) draws exactly one word,
\* returns that word unmasked and leaves unused_bits = 0; two such calls in
\* a row draw two words and return them in order.
C11_FullWidth ==
    [][(/\ unused_bits = 0 /\ call.status = "returned"
        /\ call'.op = "gen_bits" /\ call'.arg = WordBits)
         => /\ call'.status = "returned"
            /\ call'.drew = 1
            /\ draws' = draws + 1
            /\ call'.result = bit_buffer'
            /\ unused_bits' = 0]_vars

\* the second of two gen_bits(64) calls on a fresh buffer returned a word
\* with every bit set
C11_Witness ==
    /\ call.op = "gen_bits" /\ call.arg = WordBits
    /\ call.status = "returned" /\ call.drew = 1
    /\ draws = 2 /\ requested = 2 * WordBits /\ unused_bits = 0
    /\ call.result = U64Mod - 1 /\ faithful

\* C13 as stated: an iteration of the refinement loop that does not return
\* ends with a leftover_size strictly smaller than the one it started with.
C13_StrictShrink ==
    [][(/\ call.op = "gen_range" /\ call.status = "running"
        /\ call.arg > 0 /\ call.arg <= 2 ^ (WordBits - 1)
        /\ call'.status = "running" /\ call'.round = call.round + 1)
         => call'.leftover_size < call.leftover_size]_vars

\* C13, amended: an iteration that does not return ends with leftover_size
\* = (leftover_size << extra) - size, which is non-negative and, for
\* size > 0, strictly smaller than size; it need not be smaller than at the
\* start of the iteration.
C13_BelowSize ==
    (/\ call.op = "gen_range" /\ call.status = "running"
     /\ call.round >= 2 /\ call.arg > 0)
        => call.leftover_size \in 0 .. (call.arg - 1)

\* gen_range(3) finished an iteration without returning: leftover_size was 1
\* at its start and is 1 again
C13_Witness ==
    /\ call.op = "gen_range" /\ call.status = "running"
    /\ call.round = 2 /\ call.arg = 3 /\ call.leftover_size = 1
    /\ call.reqs = <<2, 2>>

\* C14: for every size > 0 a gen_range(size) call eventually returns unless
\* the generator keeps the accumulator at or above size forever; so on a
\* correctly used buffer the call never panics and its inner search never
\* runs forever.
C14_Terminates ==
    (call.op = "gen_range" /\ call.arg > 0 /\ ~misuse)
        => call.status \in {"running", "returned"}

\* C15: in every iteration of the refinement loop the number of extra bits
\* requested is the least e >= 1 with leftover_size * 2^e >= size (the true
\* product), so leftover_size * 2^e lies in [size, 2 * size) and e <= 63.
C15_MinimalExtra ==
    [][(call.status = "running" /\ Len(call'.reqs) = Len(call.reqs) + 1)
         => LET e == call'.reqs[Len(call'.reqs)]
                grown == call.leftover_size * (2 ^ e)
            IN /\ e >= 1 /\ e <= WordBits - 1
               /\ grown >= call.arg /\ grown < 2 * call.arg
               /\ \A f \in 1 .. (e - 1) :
                     call.leftover_size * (2 ^ f) < call.arg]_vars

\* C16: gen_range(size), size > 0, first requests bit_length(size - 1) bits
\* (0 for size = 1); when size is a power of two the call returns that first
\* draw, having requested log2(size) bits in all, and never enters the loop.
C16_FirstDrawWidth ==
    (call.op = "gen_range" /\ call.arg > 0)
        => /\ Len(call.reqs) >= 1
           /\ \E k \in 0 .. WordBits :
                 /\ call.reqs[1] = k
                 /\ call.arg - 1 < 2 ^ k
                 /\ k > 0 => call.arg - 1 >= 2 ^ (k - 1)
           /\ \A k \in 0 .. (WordBits - 1) :
                 call.arg = 2 ^ k
                    => /\ call.status = "returned" /\ call.round = 0
                       /\ call.reqs = <<k>>

\* gen_range(2^63) returned its largest value from a first draw that
\* straddled two generator words
C16_Witness ==
    /\ call.op = "gen_range" /\ call.arg = 2 ^ (WordBits - 1)
    /\ call.status = "returned" /\ call.round = 0
    /\ call.reqs = <<WordBits - 1>> /\ call.result = call.arg - 1
    /\ call.drew = 1 /\ draws = 2

\* C17: whenever gen_range(size), size > 0, is at the head of an iteration
\* of the refinement loop, 0 < leftover_size < size and 0 <= leftover <
\* leftover_size, so the inner search for the extra bit count ends before
\* the shift amount reaches 64.
C17_LoopInvariant ==
    (/\ call.op = "gen_range" /\ call.arg > 0
     /\ call.status \in {"running", "hung"})
        => /\ 0 < call.leftover_size /\ call.leftover_size < call.arg
           /\ 0 <= call.leftover /\ call.leftover < call.leftover_size
           /\ call.status = "running"
           /\ \E e \in 1 .. (WordBits - 1) :
                 ExtraBits(call.leftover_size, call.arg, overflow_checks)
                    = [status |-> "ok", v |-> e]

\* C19: the num_bits values gen_range(size) passes to gen_bits are those
\* computed from size and the number of rounds alone, whatever bits were
\* drawn: all runs with the same size request the same bit counts in every
\* round they reach.
C19_DataIndependent ==
    (call.op = "gen_range" /\ call.reqs # <<>>)
        => call.reqs = Schedule(call.arg, Len(call.reqs) - 1,
                                overflow_checks)

\* gen_range(3) returned in its second iteration after three requests
C19_Witness ==
    /\ call.op = "gen_range" /\ call.arg = 3 /\ call.status = "returned"
    /\ call.round = 2 /\ call.reqs = <<2, 2, 2>> /\ call.drew = 2

\* C18: over any sequence of gen_bits and gen_range calls on a
\* CountingRngBitstream, count never decreases and equals the sum of
\* num_bits over all gen_bits requests so far, those of gen_range included,
\* and the values returned and the wrapped buffer are those of the
\* undecorated RngBitstream given the same words and the same calls.
C18_CountingDecorator ==
    [][/\ count' >= count
       /\ count' = requested'
       /\ plain'.bit_buffer = bit_buffer'
       /\ plain'.unused_bits = unused_bits'
       /\ plain'.call = call']_vars

\* gen_range(3) on the CountingRngBitstream returned in its second
\* iteration: three requests of 2 bits, count = 6
C18_Witness ==
    /\ call.op = "gen_range" /\ call.arg = 3 /\ call.status = "returned"
    /\ call.round = 2 /\ count = 6 /\ draws = 2
    /\ plain.call.result = call.result /\ call.result = 2

====
